---- MODULE Spec2Model ----
(***************************************************************************)
(* Point-calculation and aggregation engine of the gamified activity       *)
(* tracker: the activity routes (create / update / delete), the logging    *)
(* route and the store they share.                                         *)
(*                                                                         *)
(* Numbers.  A JavaScript number is modelled by the count of its halves    *)
(* (field h): 1.5 is h = 3, 10 is h = 20.  Every multiplier and point      *)
(* value of the program is a multiple of 0.5, so products are exact        *)
(* quarters and Math.round is computed exactly.  Columns of the store      *)
(* that hold integers (points, pointsEarned) hold plain integers.          *)
(***************************************************************************)
EXTENDS Integers, Sequences, FiniteSets, TLC

VARIABLES activities, loggedActivities, insights, loggedTasks, nextActivityId,
          nextLogId, response, run

vars == <<activities, loggedActivities, insights, loggedTasks, nextActivityId,
          nextLogId, response, run>>

(***************************************************************************)
(* Bounds of the model.                                                    *)
(***************************************************************************)
MaxActivities == 2
MaxLogs == 2
MaxInsights == 2
MaxFaults == 1

(***************************************************************************)
(* JavaScript values: numbers, strings, null, undefined, and objects       *)
(* (functions included), with the conversions the routes apply to them.    *)
(***************************************************************************)
JsNumber(h) == [t |-> "number", h |-> h, s |-> ""]
JsInt(i) == JsNumber(2 * i)
JsString(s) == [t |-> "string", h |-> 0, s |-> s]
JsNull == [t |-> "null", h |-> 0, s |-> ""]
JsUndefined == [t |-> "undefined", h |-> 0, s |-> ""]
JsObject == [t |-> "object", h |-> 0, s |-> ""]
JsNaN == [t |-> "nan", h |-> 0, s |-> ""]

\* ToBoolean: what `!v`, `v ? a : b` and `v || d` test.
Truthy(v) ==
    CASE v.t = "number" -> v.h # 0
      [] v.t = "string" -> v.s # ""
      [] v.t = "object" -> TRUE
      [] OTHER -> FALSE

\* b || a: the operands exchanged.
OrElseSwapped(a, b) == IF Truthy(b) THEN b ELSE a

\* a || b
OrElse(a, b) == IF Truthy(a) THEN a ELSE b

Digit(d) ==
    CASE d = 0 -> "0" [] d = 1 -> "1" [] d = 2 -> "2" [] d = 3 -> "3" [] d = 4 -> "4"
      [] d = 5 -> "5" [] d = 6 -> "6" [] d = 7 -> "7" [] d = 8 -> "8" [] d = 9 -> "9"

RECURSIVE Decimal(_)
Decimal(n) == IF n < 10 THEN Digit(n) ELSE Decimal(n \div 10) \o Digit(n % 10)

\* String(v) for the values a JSON body can carry (numbers here are whole).
String(v) ==
    CASE v.t = "string" -> v.s
      [] v.t = "number" -> IF v.h < 0 THEN "-" \o Decimal((0 - v.h) \div 2)
                                      ELSE Decimal(v.h \div 2)
      [] v.t = "null" -> "null"
      [] v.t = "undefined" -> "undefined"
      [] OTHER -> "[object Object]"

\* Properties every plain object inherits from Object.prototype.
ObjectPrototypeKeys == {"constructor", "toString", "valueOf", "hasOwnProperty"}

\* obj[key]: an own entry, else an inherited member, else undefined.
GetProperty(obj, key) ==
    IF String(key) \in DOMAIN obj THEN JsNumber(obj[String(key)])
    ELSE IF String(key) \in ObjectPrototypeKeys THEN JsObject
    ELSE JsUndefined

\* Math.floor(a * b) in place of Math.round(a * b).
MathFloorProduct(a, b) ==
    IF a.t = "number" /\ b.t = "number"
    THEN JsInt((a.h * b.h) \div 4)
    ELSE JsNaN

\* a * b rounded to the nearest integer, a tie going to the even neighbour.
MathRoundHalfEvenProduct(a, b) ==
    IF a.t = "number" /\ b.t = "number"
    THEN LET q == a.h * b.h
         IN  IF q % 4 = 2 /\ (q \div 4) % 2 = 0 THEN JsInt(q \div 4)
             ELSE JsInt((q + 2) \div 4)
    ELSE JsNaN

\* Math.round(a * b): the nearest integer, a tie going up; NaN unless both
\* operands are numbers.
MathRoundProduct(a, b) ==
    IF a.t = "number" /\ b.t = "number"
    THEN JsInt((a.h * b.h + 2) \div 4)
    ELSE JsNaN

(***************************************************************************)
(* Focus tables.  NoTable is a null focusLevels column.                    *)
(***************************************************************************)
NoTable == << >>
DefaultFocusLevels == [low |-> 1, medium |-> 2, good |-> 3, zen |-> 4]
FixedPointsTable == [low |-> 16, medium |-> 24, good |-> 36, zen |-> 50]

(***************************************************************************)
(* Times of day, "HH:MM" as <<HH, MM>>; NoTime is an absent field.         *)
(***************************************************************************)
NoTime == << >>

\* new Date(`1970-01-01T${t}`).getTime(), up to the zone offset both ends share.
GetTime(t) == (t[1] * 60 + t[2]) * 60000

\* The difference divided by 1000 alone: seconds taken for minutes.
DurationSeconds(startTime, endTime) ==
    (2 * (GetTime(endTime) - GetTime(startTime)) + 1000) \div (2 * 1000)

\* An end before the start read as the next day.
DurationMinutesWrapped(startTime, endTime) ==
    LET d == (2 * (GetTime(endTime) - GetTime(startTime)) + 60000) \div (2 * 60000)
    IN  IF d < 0 THEN d + 24 * 60 ELSE d

\* Math.round((end.getTime() - start.getTime()) / (1000 * 60))
DurationMinutes(startTime, endTime) ==
    (2 * (GetTime(endTime) - GetTime(startTime)) + 60000) \div (2 * 60000)

(***************************************************************************)
(* The point calculation of the logging route.                             *)
(***************************************************************************)
PointsEarned(activity, startTime, endTime, focusLevel) ==
    LET activityType == IF activity.type # "" THEN activity.type ELSE "fixed"
        focusScoringType == IF activity.focusScoringType # ""
                            THEN activity.focusScoringType ELSE "multiplier"
        focusLevels == IF activity.focusLevels # NoTable
                       THEN activity.focusLevels ELSE DefaultFocusLevels
        entry == GetProperty(focusLevels, focusLevel)
    IN  IF activityType = "fixed"
        THEN IF focusScoringType = "multiplier"
             THEN MathRoundProduct(JsInt(activity.points), OrElse(entry, JsNumber(2)))
             ELSE OrElse(entry, JsInt(activity.points))
        ELSE IF activityType = "time_based" /\ startTime # NoTime /\ endTime # NoTime
        THEN LET durationMinutes == DurationMinutes(startTime, endTime)
             IN  IF durationMinutes > 0
                 THEN IF focusScoringType = "multiplier"
                      THEN MathRoundProduct(JsInt(durationMinutes),
                                            OrElse(entry, JsNumber(2)))
                      ELSE OrElse(entry, JsInt(0))
                 ELSE JsInt(0)
        ELSE JsInt(0)

\* focusLevel ? String(focusLevel) : null
FocusLevelString(focusLevel) ==
    IF Truthy(focusLevel) THEN JsString(String(focusLevel)) ELSE JsNull

(***************************************************************************)
(* The store.  Users and their point categories exist before any request   *)
(* of the engine; activities and logged activities are rows.               *)
(***************************************************************************)
Users == {"u1", "u2"}
NoSession == ""

PointCategories ==
    { [id |-> "c1", userId |-> "u1"],
      [id |-> "c2", userId |-> "u1"],
      [id |-> "c3", userId |-> "u2"] }

CategoryIds == {c.id : c \in PointCategories}

\* The benchmarks of the categories, each with the points it requires.
Benchmarks ==
    { [id |-> "b1", pointCategoryId |-> "c1", pointsRequired |-> 5],
      [id |-> "b2", pointCategoryId |-> "c1", pointsRequired |-> 20],
      [id |-> "b3", pointCategoryId |-> "c2", pointsRequired |-> 7],
      [id |-> "b4", pointCategoryId |-> "c3", pointsRequired |-> 7] }

Names == {"A", "B"}

\* findFirst({ where: { id } }): the owner left out of the filter.
FindActivityOfAnyUser(acts, id, userId) == {a \in acts : a.id = id}

\* prisma.activity.findFirst({ where: { id, userId } })
FindActivity(acts, id, userId) == {a \in acts : a.id = id /\ a.userId = userId}

\* prisma.pointCategory.findFirst({ where: { id, userId } })
FindCategory(id, userId) == {c \in PointCategories : c.id = id /\ c.userId = userId}

\* prisma.activity.findFirst({ where: { userId, pointCategoryId, name, id: { not } } })
FindByName(acts, userId, pointCategoryId, name, notId) ==
    {a \in acts : a.userId = userId /\ a.pointCategoryId = pointCategoryId
                  /\ a.name = name /\ a.id # notId}

\* The rows of an activity.
LogsOf(logs, activityId) == {l \in logs : l.activityId = activityId}

\* The insights keyed to an activity.
InsightsOf(ins, activityId) == {i \in ins : i.activityId = activityId}

\* What the store does with the insights keyed to an activity when the
\* activity row is deleted: nothing, reject the delete, delete them, or
\* clear their key.  The handler does not decide which.
InsightRelations == {"NoRelation", "Restrict", "Cascade", "SetNull"}

(***************************************************************************)
(* Responses: the status, the message or error of the body, the            *)
(* pointsEarned of a logging response, and the totals and the achieved     *)
(* benchmarks of an aggregation.                                           *)
(***************************************************************************)
\* A response without per-category totals: every category absent (-1).
NoTotals == [c \in CategoryIds |-> 0 - 1]

Reply(op, status, body) ==
    [op |-> op, status |-> status, body |-> body, pointsEarned |-> JsUndefined,
     totals |-> NoTotals, totalPoints |-> 0 - 1, achieved |-> {}]

Outcome(resp, acts, logs) ==
    [response |-> resp, activities |-> acts, loggedActivities |-> logs]

\* The outcome of a handler that also writes the insight table.
OutcomeWithInsights(resp, acts, logs, ins) ==
    [response |-> resp, activities |-> acts, loggedActivities |-> logs,
     insights |-> ins]

\* The writes a transaction has made and not yet committed.
NoWrites == [loggedActivities |-> {}, insights |-> {}, activities |-> {}]

\* The requests in flight when handlers run step by step: the position of a
\* logging request and of a delete request, what each has read, the writes
\* of the delete's open transaction, and the store failures so far.
Run(logPc, delPc, cascade) ==
    [log |-> [pc |-> logPc, found |-> {}, attempts |-> 0, rejected |-> FALSE,
              response |-> Reply("none", 0, "")],
     del |-> [pc |-> delPc, cascade |-> cascade, tx |-> NoWrites,
              before |-> NoWrites, response |-> Reply("none", 0, "")],
     faults |-> 0]

\* No request in flight: every handler runs whole.
NoRun == Run("idle", "idle", FALSE)

\* The pointsEarned column holds an integer: the insert throws on anything else.
IsInteger(v) == v.t = "number" /\ v.h % 2 = 0

(***************************************************************************)
(* POST /api/activities/log                                                *)
(***************************************************************************)
\* if (!activityId): the date left unchecked.
RequiredMissingIdOnly(req) == req.activityId = 0

\* if (!activityId || !date)
RequiredMissing(req) == req.activityId = 0 \/ req.date = ""

\* An upsert keyed by user and activity: the caller's earlier rows of the
\* activity are replaced by the new one.
UpsertLoggedActivity(logs, logId, userId, activityId, focusLevelString, pointsEarned) ==
    {l \in logs : l.userId # userId \/ l.activityId # activityId}
      \cup { [id |-> logId,
               userId |-> userId,
               activityId |-> activityId,
               focusLevel |-> focusLevelString,
               pointsEarned |-> pointsEarned.h \div 2] }

\* prisma.loggedActivity.create({ data: { userId, activityId, ..., pointsEarned } })
CreateLoggedActivity(logs, logId, userId, activityId, focusLevelString, pointsEarned) ==
    logs \cup { [id |-> logId,
                 userId |-> userId,
                 activityId |-> activityId,
                 focusLevel |-> focusLevelString,
                 pointsEarned |-> pointsEarned.h \div 2] }

logActivity(session, req, acts, logs, logId) ==
    IF session = NoSession
    THEN Outcome(Reply("log", 401, "Unauthorized"), acts, logs)
    ELSE IF RequiredMissing(req)
    THEN Outcome(Reply("log", 400, "Activity ID and date are required"), acts, logs)
    ELSE IF FindActivity(acts, req.activityId, session) = {}
    THEN Outcome(Reply("log", 404, "Activity not found or access denied"), acts, logs)
    ELSE LET activity == CHOOSE a \in FindActivity(acts, req.activityId, session) : TRUE
             pointsEarned == PointsEarned(activity, req.startTime, req.endTime,
                                          req.focusLevel)
             focusLevelString == FocusLevelString(req.focusLevel)
         IN  IF ~IsInteger(pointsEarned)
             THEN Outcome(Reply("log", 500, "Internal server error"), acts, logs)
             ELSE Outcome(
                    [op |-> "log", status |-> 201,
                     body |-> "Activity logged successfully!",
                     pointsEarned |-> pointsEarned,
                     totals |-> NoTotals, totalPoints |-> 0 - 1, achieved |-> {}],
                    acts,
                    CreateLoggedActivity(logs, logId, session, req.activityId,
                                         focusLevelString, pointsEarned))

(***************************************************************************)
(* POST and PUT /api/activities                                            *)
(***************************************************************************)
\* parseInt(v): the whole part of a number, NaN for what is no number.
ParseInt(v) ==
    IF v.t = "number"
    THEN IF v.h < 0 THEN JsInt(0 - ((0 - v.h) \div 2)) ELSE JsInt(v.h \div 2)
    ELSE JsNaN

\* type === 'fixed' ? parseInt(points) : 0
PointsColumn(req) == IF req.type = "fixed" THEN ParseInt(req.points) ELSE JsInt(0)

\* The check of the points alone: a body without focusLevels or with an
\* unknown focusScoringType passes.
BodyErrorPointsOnly(req) ==
    IF req.type = "fixed" /\ ~Truthy(req.points)
    THEN "Points are required for fixed activities"
    ELSE ""

\* The four checks of the body that POST and PUT share, after the required ids.
BodyError(req) ==
    IF req.type = "fixed" /\ ~Truthy(req.points)
    THEN "Points are required for fixed activities"
    ELSE IF req.focusLevels = NoTable
    THEN "Focus levels are required for all activities"
    ELSE IF req.focusScoringType \notin {"multiplier", "fixed_points"}
    THEN "Valid focus scoring type is required"
    ELSE ""

\* A table without the compound key: any rows are accepted.
UniqueUnchecked(acts) == TRUE

\* The compound unique key userId_name of the activity table (the key the
\* setup scripts upsert on): a write leaving two rows of one user under one
\* name is rejected by the store.
UniqueUserIdName(acts) ==
    \A a, b \in acts : a.userId = b.userId /\ a.name = b.name => a.id = b.id

\* The rows after prisma.activity.create({ data }).
CreatedRows(session, req, acts, actId) ==
    acts \cup { [id |-> actId,
                 userId |-> session,
                 pointCategoryId |-> req.pointCategoryId,
                 name |-> req.name,
                 points |-> PointsColumn(req).h \div 2,
                 type |-> "",
                 focusScoringType |-> "",
                 focusLevels |-> NoTable] }

\* An update that also writes the category of the body.
UpdatedRowsWithCategory(req, acts) ==
    { IF a.id = req.id
      THEN [a EXCEPT !.name = req.name, !.points = PointsColumn(req).h \div 2,
                     !.pointCategoryId = req.pointCategoryId]
      ELSE a : a \in acts }

\* The rows after prisma.activity.update({ where: { id }, data }).
UpdatedRows(req, acts) ==
    { IF a.id = req.id
      THEN [a EXCEPT !.name = req.name, !.points = PointsColumn(req).h \div 2]
      ELSE a : a \in acts }

createActivity(session, req, acts, logs, actId) ==
    IF session = NoSession
    THEN Outcome(Reply("create", 401, "Unauthorized"), acts, logs)
    ELSE IF req.name = "" \/ req.pointCategoryId = ""
    THEN Outcome(Reply("create", 400, "Name and category are required"), acts, logs)
    ELSE IF BodyError(req) # ""
    THEN Outcome(Reply("create", 400, BodyError(req)), acts, logs)
    ELSE IF FindCategory(req.pointCategoryId, session) = {}
    THEN Outcome(Reply("create", 404, "Category not found or access denied"), acts, logs)
    ELSE IF FindByName(acts, session, req.pointCategoryId, req.name, 0) # {}
    THEN Outcome(Reply("create", 400,
                       "An activity with this name already exists in this category"),
                 acts, logs)
    ELSE IF ~IsInteger(PointsColumn(req))
    THEN Outcome(Reply("create", 500, "Internal server error"), acts, logs)
    ELSE IF ~UniqueUserIdName(CreatedRows(session, req, acts, actId))
    THEN Outcome(Reply("create", 500, "Internal server error"), acts, logs)
    ELSE Outcome(Reply("create", 201, "created"),
                 CreatedRows(session, req, acts, actId), logs)

\* An update that rescores the rows of the activity with its new points.
updateActivityRecomputing(session, req, acts, logs) ==
    IF FindActivity(acts, req.id, session) = {} \/ ~IsInteger(PointsColumn(req))
    THEN Outcome(Reply("update", 404, "Activity not found or access denied"), acts, logs)
    ELSE Outcome(Reply("update", 200, "updated"), UpdatedRows(req, acts),
                 { IF l.activityId = req.id
                   THEN [l EXCEPT !.pointsEarned = PointsColumn(req).h \div 2]
                   ELSE l : l \in logs })

updateActivity(session, req, acts, logs) ==
    IF session = NoSession
    THEN Outcome(Reply("update", 401, "Unauthorized"), acts, logs)
    ELSE IF req.id = 0 \/ req.name = "" \/ req.pointCategoryId = ""
    THEN Outcome(Reply("update", 400, "Activity ID, name and category are required"),
                 acts, logs)
    ELSE IF BodyError(req) # ""
    THEN Outcome(Reply("update", 400, BodyError(req)), acts, logs)
    ELSE IF FindActivity(acts, req.id, session) = {}
    THEN Outcome(Reply("update", 404, "Activity not found or access denied"), acts, logs)
    ELSE IF FindByName(acts, session, req.pointCategoryId, req.name, req.id) # {}
    THEN Outcome(Reply("update", 400,
                       "An activity with this name already exists in this category"),
                 acts, logs)
    ELSE IF ~IsInteger(PointsColumn(req))
    THEN Outcome(Reply("update", 500, "Internal server error"), acts, logs)
    ELSE IF ~UniqueUserIdName(UpdatedRows(req, acts))
    THEN Outcome(Reply("update", 500, "Internal server error"), acts, logs)
    ELSE Outcome(Reply("update", 200, "updated"), UpdatedRows(req, acts), logs)

(***************************************************************************)
(* DELETE /api/activities                                                  *)
(***************************************************************************)
\* tx.activity.delete({ where: { id } }): the row goes, and the insights
\* keyed to it follow the relation; rows of the activity, or insights under
\* a restricting relation, make the store reject the delete.
ActivityDelete(acts, logs, ins, activityId, relation) ==
    IF \/ LogsOf(logs, activityId) # {}
       \/ (relation = "Restrict" /\ InsightsOf(ins, activityId) # {})
    THEN [ok |-> FALSE, activities |-> acts, insights |-> ins]
    ELSE [ok |-> TRUE,
          activities |-> {a \in acts : a.id # activityId},
          insights |-> IF relation = "Cascade"
                       THEN ins \ InsightsOf(ins, activityId)
                       ELSE IF relation = "SetNull"
                       THEN {IF i.activityId = activityId
                             THEN [i EXCEPT !.activityId = 0] ELSE i : i \in ins}
                       ELSE ins]

\* The transaction without tx.insight.deleteMany: the insights stay behind.
DeleteTransactionKeepsInsights(deleteLoggedActivities, activityId, acts, logs, ins, relation) ==
    IF ~deleteLoggedActivities /\ Cardinality(LogsOf(logs, activityId)) > 0
    THEN [ok |-> FALSE, activities |-> acts, loggedActivities |-> logs, insights |-> ins]
    ELSE [ok |-> TRUE,
          activities |-> {a \in acts : a.id # activityId},
          loggedActivities |-> IF deleteLoggedActivities
                               THEN logs \ LogsOf(logs, activityId) ELSE logs,
          insights |-> ins]

\* The transaction of the handler: its result is committed whole or, when a
\* step throws, not at all.
DeleteTransaction(deleteLoggedActivities, activityId, acts, logs, ins, relation) ==
    LET logs1 == IF deleteLoggedActivities THEN logs \ LogsOf(logs, activityId) ELSE logs
        ins1 == IF deleteLoggedActivities THEN ins \ InsightsOf(ins, activityId) ELSE ins
        del == ActivityDelete(acts, logs1, ins1, activityId, relation)
    IN  IF ~deleteLoggedActivities /\ Cardinality(LogsOf(logs, activityId)) > 0
        THEN [ok |-> FALSE, activities |-> acts, loggedActivities |-> logs,
              insights |-> ins]
        ELSE IF ~del.ok
        THEN [ok |-> FALSE, activities |-> acts, loggedActivities |-> logs,
              insights |-> ins]
        ELSE [ok |-> TRUE, activities |-> del.activities, loggedActivities |-> logs1,
              insights |-> del.insights]

deleteActivity(session, activityId, deleteLoggedActivities, acts, logs, ins, relation) ==
    IF session = NoSession
    THEN OutcomeWithInsights(Reply("delete", 401, "Unauthorized"), acts, logs, ins)
    ELSE IF activityId = 0
    THEN OutcomeWithInsights(Reply("delete", 400, "Activity ID is required"),
                             acts, logs, ins)
    ELSE IF FindActivity(acts, activityId, session) = {}
    THEN OutcomeWithInsights(Reply("delete", 404, "Activity not found or access denied"),
                             acts, logs, ins)
    ELSE LET tx == DeleteTransaction(deleteLoggedActivities, activityId, acts, logs,
                                     ins, relation)
         IN  IF ~tx.ok
             THEN OutcomeWithInsights(Reply("delete", 500, "Internal server error"),
                                      acts, logs, ins)
             ELSE OutcomeWithInsights(
                    Reply("delete", 200,
                          IF deleteLoggedActivities
                          THEN "Activity and all its logged activities deleted successfully"
                          ELSE "Activity deleted successfully"),
                    tx.activities, tx.loggedActivities, tx.insights)

(***************************************************************************)
(* GET /api/point-categories                                               *)
(***************************************************************************)
\* for (const item of result) map.set(categoryId, (map.get(categoryId) || 0)
\*                                               + (item.pointsEarned || 0))
RECURSIVE PointsMap(_, _)
PointsMap(items, map) ==
    IF items = {}
    THEN map
    ELSE LET item == CHOOSE i \in items : TRUE
         IN  PointsMap(items \ {item},
                       [map EXCEPT ![item.categoryId] = @ + item.pointsEarned])

\* findMany without the userId of the session: the rows of every user whose
\* activity lies in one of the categories.
ActivityPointsOfAnyUser(session, categories, acts, logs) ==
    { [id |-> l.id,
       pointsEarned |-> l.pointsEarned,
       categoryId |-> (CHOOSE a \in acts : a.id = l.activityId).pointCategoryId] :
      l \in { x \in logs : \E a \in acts : /\ a.id = x.activityId
                                            /\ a.pointCategoryId \in categories } }

\* prisma.loggedActivity.findMany: the caller's rows whose activity lies in
\* one of the categories, each with its points and its activity's category.
ActivityPointsResult(session, categories, acts, logs) ==
    { [id |-> l.id,
       pointsEarned |-> l.pointsEarned,
       categoryId |-> (CHOOSE a \in acts : a.id = l.activityId).pointCategoryId] :
      l \in { x \in logs : /\ x.userId = session
                            /\ \E a \in acts : /\ a.id = x.activityId
                                                /\ a.pointCategoryId \in categories } }

\* prisma.loggedTask.findMany: the same for the caller's logged tasks.
TaskPointsResult(session, categories, tasks) ==
    { [id |-> t.id, pointsEarned |-> t.pointsEarned, categoryId |-> t.pointCategoryId] :
      t \in { x \in tasks : x.userId = session /\ x.pointCategoryId \in categories } }

\* The points of a category from the activity map alone.
CategoryPointsWithoutTasks(activityPointsMap, taskPointsMap, categoryId) ==
    activityPointsMap[categoryId]

\* totalPoints = activityPoints + taskPoints
CategoryPoints(activityPointsMap, taskPointsMap, categoryId) ==
    activityPointsMap[categoryId] + taskPointsMap[categoryId]

\* categoriesWithPoints.reduce((sum, cat) => sum + cat.points, 0)
\* achieved: totalPoints > benchmark.pointsRequired, the threshold itself
\* left out.
AchievedAbove(totalPoints, pointsRequired) == totalPoints > pointsRequired

\* achieved: totalPoints >= benchmark.pointsRequired
Achieved(totalPoints, pointsRequired) == totalPoints >= pointsRequired

\* category.benchmarks.map(...): the benchmarks of the categories marked achieved.
BenchmarksAchieved(categories, totals) ==
    { b.id : b \in { x \in Benchmarks :
                        /\ x.pointCategoryId \in categories
                        /\ Achieved(totals[x.pointCategoryId], x.pointsRequired) } }

RECURSIVE Reduce(_, _)
Reduce(categories, totals) ==
    IF categories = {}
    THEN 0
    ELSE LET c == CHOOSE x \in categories : TRUE
         IN  totals[c] + Reduce(categories \ {c}, totals)

aggregateByCategory(session, acts, logs, tasks) ==
    IF session = NoSession
    THEN Outcome(Reply("aggregate", 401, "Unauthorized"), acts, logs)
    ELSE LET categories == {c.id : c \in {x \in PointCategories : x.userId = session}}
             zero == [c \in CategoryIds |-> 0]
             activityPointsMap ==
                 PointsMap(ActivityPointsResult(session, categories, acts, logs), zero)
             taskPointsMap ==
                 PointsMap(TaskPointsResult(session, categories, tasks), zero)
             totals == [c \in CategoryIds |->
                          IF c \in categories
                          THEN CategoryPoints(activityPointsMap, taskPointsMap, c)
                          ELSE 0 - 1]
         IN  Outcome([op |-> "aggregate", status |-> 200, body |-> "",
                      pointsEarned |-> JsUndefined,
                      totals |-> totals,
                      totalPoints |-> Reduce(categories, totals),
                      achieved |-> BenchmarksAchieved(categories, totals)],
                     acts, logs)

(***************************************************************************)
(* The setup scripts write activity rows directly, with the full           *)
(* definition: prisma.activity.upsert keyed by (userId, name), update: {}. *)
(***************************************************************************)
Definitions ==
    { [type |-> "fixed", focusScoringType |-> "multiplier", points |-> 10,
       focusLevels |-> DefaultFocusLevels],
      [type |-> "fixed", focusScoringType |-> "multiplier", points |-> 15,
       focusLevels |-> DefaultFocusLevels],
      [type |-> "time_based", focusScoringType |-> "multiplier", points |-> 0,
       focusLevels |-> DefaultFocusLevels],
      [type |-> "fixed", focusScoringType |-> "fixed_points", points |-> 5,
       focusLevels |-> FixedPointsTable],
      [type |-> "fixed", focusScoringType |-> "fixed_points", points |-> 10,
       focusLevels |-> FixedPointsTable],
      [type |-> "time_based", focusScoringType |-> "fixed_points", points |-> 0,
       focusLevels |-> FixedPointsTable] }

\* A row written with its points alone: the other columns stay null.
BareDefinition ==
    [type |-> "", focusScoringType |-> "", points |-> 10, focusLevels |-> NoTable]

\* An insight derived from the rows of an activity and keyed to it; an
\* activity without rows has none.
deriveInsight(ins, logs, activityId) ==
    IF LogsOf(logs, activityId) = {} \/ Cardinality(ins) >= MaxInsights
    THEN ins
    ELSE ins \cup { [id |-> CHOOSE n \in 1 .. MaxInsights :
                                 \A i \in ins : i.id # n,
                     activityId |-> activityId] }

setupTestData(userId, pointCategoryId, name, def, acts, actId) ==
    IF \E a \in acts : a.userId = userId /\ a.name = name
    THEN acts
    ELSE acts \cup { [id |-> actId,
                      userId |-> userId,
                      pointCategoryId |-> pointCategoryId,
                      name |-> name,
                      points |-> def.points,
                      type |-> def.type,
                      focusScoringType |-> def.focusScoringType,
                      focusLevels |-> def.focusLevels] }

(***************************************************************************)
(* Requests the model sends.                                               *)
(***************************************************************************)
Sessions == Users \cup {NoSession}

CanonicalLevels == {"low", "medium", "good", "zen"}

FocusInputs ==
    { JsString(l) : l \in CanonicalLevels }
    \cup { JsString("invalid_focus_level"), JsString("constructor"), JsString(""),
           JsInt(0), JsInt(1735), JsNull, JsUndefined }

TimeInputs == {NoTime, <<9, 0>>, <<10, 30>>, <<10, 45>>}

ActivityIds == 0 .. MaxActivities

Dates == {"", "2024-01-15"}

\* The request bodies naming one of ids on one of dates, every other field free.
LogRequestsOf(ids, dates) ==
    [activityId : ids, date : dates,
     startTime : TimeInputs, endTime : TimeInputs, focusLevel : FocusInputs]

LogRequests == LogRequestsOf(ActivityIds, Dates)

\* The logging requests of the full request machine: one canonical level, a
\* missing level and an inherited key, with and without a time range.
FewLogRequests ==
    { r \in LogRequests :
        /\ r.focusLevel \in {JsString("good"), JsNull, JsString("constructor")}
        /\ <<r.startTime, r.endTime>> \in {<<NoTime, NoTime>>, <<(<<9, 0>>), (<<10, 30>>)>>}
        /\ (r.date = "" => r.focusLevel = JsNull /\ r.startTime = NoTime) }

Body(id, name, type, focusScoringType, points, focusLevels, pointCategoryId) ==
    [id |-> id, name |-> name, type |-> type, focusScoringType |-> focusScoringType,
     points |-> points, focusLevels |-> focusLevels, pointCategoryId |-> pointCategoryId]

\* Well-formed bodies: either kind, under every name and category.
GoodBodies(ids) ==
    { Body(id, n, "fixed", "multiplier", JsInt(15), DefaultFocusLevels, c) :
        id \in ids, n \in Names, c \in {"c1", "c2", "c3"} }
    \cup { Body(id, "A", "time_based", "multiplier", JsUndefined, DefaultFocusLevels, c) :
        id \in ids, c \in {"c1", "c3"} }
    \cup { Body(id, "A", "fixed", "fixed_points", JsNumber(31), FixedPointsTable, c) :
        id \in ids, c \in {"c1", "c3"} }

\* One body for each way of being malformed.
BadBodies(id) ==
    { Body(id, "", "fixed", "multiplier", JsInt(15), DefaultFocusLevels, "c1"),
      Body(id, "A", "fixed", "multiplier", JsInt(15), DefaultFocusLevels, ""),
      Body(id, "A", "fixed", "multiplier", JsInt(0), DefaultFocusLevels, "c1"),
      Body(id, "A", "time_based", "multiplier", JsUndefined, NoTable, "c1"),
      Body(id, "A", "time_based", "", JsUndefined, DefaultFocusLevels, "c1"),
      Body(id, "A", "time_based", "bonus", JsUndefined, DefaultFocusLevels, "c1") }

ActivityBodies == GoodBodies(ActivityIds) \cup UNION {BadBodies(id) : id \in ActivityIds}

\* <<session, body>> of the create and update requests the request machine sends:
\* the first user under every well-formed body, the second user under one name.
CreateCalls ==
    ({"u1"} \X GoodBodies({0}))
    \cup ({"u2"} \X {b \in GoodBodies({0}) : b.name = "A" /\ b.type = "fixed"})
    \cup ({"u1", NoSession} \X BadBodies(0))

UpdateCalls ==
    ({"u1"} \X {b \in GoodBodies(ActivityIds) : b.pointCategoryId # "c3"})
    \cup ({"u2"} \X {b \in GoodBodies(1 .. MaxActivities) :
                       b.type = "fixed" /\ b.pointCategoryId = "c3"})
    \cup ({"u1", NoSession} \X BadBodies(1))

(***************************************************************************)
(* Actions: one per request, each the whole handler.                       *)
(***************************************************************************)
Commit(out) ==
    /\ response' = out.response
    /\ activities' = out.activities
    /\ loggedActivities' = out.loggedActivities
    /\ insights' = IF "insights" \in DOMAIN out THEN out.insights ELSE insights
    /\ UNCHANGED <<loggedTasks, run>>
    /\ nextActivityId' = IF \E a \in out.activities : a.id = nextActivityId
                         THEN nextActivityId + 1 ELSE nextActivityId
    /\ nextLogId' = IF \E l \in out.loggedActivities : l.id = nextLogId
                    THEN nextLogId + 1 ELSE nextLogId

LogOutcome(session, req) ==
    logActivity(session, req, activities, loggedActivities, nextLogId)

CreateOutcome(session, req) ==
    createActivity(session, req, activities, loggedActivities, nextActivityId)

UpdateOutcome(session, req) ==
    updateActivity(session, req, activities, loggedActivities)

DeleteOutcome(session, activityId, deleteLoggedActivities, relation) ==
    deleteActivity(session, activityId, deleteLoggedActivities, activities,
                   loggedActivities, insights, relation)

LogActivity(session, req) ==
    /\ nextLogId <= MaxLogs
    /\ Commit(LogOutcome(session, req))

CreateActivity(session, req) ==
    /\ nextActivityId <= MaxActivities
    /\ Commit(CreateOutcome(session, req))

UpdateActivity(session, req) ==
    /\ activities # {}
    /\ Commit(UpdateOutcome(session, req))

DeleteActivity(session, activityId, deleteLoggedActivities) ==
    /\ activities # {}
    /\ \E relation \in InsightRelations :
          Commit(DeleteOutcome(session, activityId, deleteLoggedActivities, relation))

Init ==
    /\ activities = {}
    /\ loggedActivities = {}
    /\ insights = {}
    /\ loggedTasks = {}
    /\ nextActivityId = 1
    /\ nextLogId = 1
    /\ response = Reply("none", 0, "")
    /\ run = NoRun

Next ==
    \/ \E c \in CreateCalls : CreateActivity(c[1], c[2])
    \/ \E c \in UpdateCalls : UpdateActivity(c[1], c[2])
    \/ \E session \in Sessions, id \in ActivityIds, cascade \in BOOLEAN :
          DeleteActivity(session, id, cascade)
    \/ \E session \in Sessions, req \in FewLogRequests : LogActivity(session, req)

Spec == Init /\ [][Next]_vars

(***************************************************************************)
(* The scoring specification: a store the setup scripts have filled with   *)
(* two activities of the test user (one with a full definition, one with   *)
(* its points alone), then logging requests over every input.              *)
(***************************************************************************)
InitScoring ==
    /\ \E def \in Definitions :
          activities = setupTestData("u1", "c1", "B", BareDefinition,
                           setupTestData("u1", "c1", "A", def, {}, 1), 2)
    /\ loggedActivities = {}
    /\ insights = {}
    /\ loggedTasks = {}
    /\ nextActivityId = 3
    /\ nextLogId = 1
    /\ response = Reply("none", 0, "")
    /\ run = NoRun

\* <<session, request>>: the test user under every request, the others under a few.
ScoringCalls ==
    ({"u1"} \X LogRequests) \cup ({"u2", NoSession} \X FewLogRequests)

NextScoring == \E c \in ScoringCalls : LogActivity(c[1], c[2])

SpecScoring == InitScoring /\ [][NextScoring]_vars

(***************************************************************************)
(* The deletion specification: two seeded activities (the second one of    *)
(* either user), logging requests, insights derived from the rows, and     *)
(* delete requests of every caller, with and without the cascade.          *)
(***************************************************************************)
InitDelete ==
    /\ \E owner \in Users :
          activities =
              setupTestData(owner, IF owner = "u1" THEN "c2" ELSE "c3", "B",
                            BareDefinition,
                            setupTestData("u1", "c1", "A", BareDefinition, {}, 1), 2)
    /\ loggedActivities = {}
    /\ insights = {}
    /\ loggedTasks = {}
    /\ nextActivityId = 3
    /\ nextLogId = 1
    /\ response = Reply("none", 0, "")
    /\ run = NoRun

DeriveInsight(activityId) ==
    /\ deriveInsight(insights, loggedActivities, activityId) # insights
    /\ insights' = deriveInsight(insights, loggedActivities, activityId)
    /\ UNCHANGED <<activities, loggedActivities, loggedTasks, nextActivityId,
                   nextLogId, response, run>>

\* <<session, request>>: each user logging either activity at one level.
DeleteSpecLogCalls ==
    Users \X [activityId : 1 .. MaxActivities, date : {"2024-01-15"},
              startTime : {NoTime}, endTime : {NoTime},
              focusLevel : {JsString("good")}]

NextDelete ==
    \/ \E c \in DeleteSpecLogCalls : LogActivity(c[1], c[2])
    \/ \E id \in 1 .. MaxActivities : DeriveInsight(id)
    \/ \E session \in Sessions, id \in ActivityIds, cascade \in BOOLEAN :
          DeleteActivity(session, id, cascade)

SpecDelete == InitDelete /\ [][NextDelete]_vars

(***************************************************************************)
(* The ledger specification: two seeded activities, logged tasks already   *)
(* in the store, then logging, update, delete and aggregation requests.    *)
(***************************************************************************)
\* Stores of logged tasks: none, one in the first category of the test
\* user, one for each user.
TaskSeeds ==
    { {},
      { [id |-> 1, userId |-> "u1", pointCategoryId |-> "c1", pointsEarned |-> 5] },
      { [id |-> 1, userId |-> "u1", pointCategoryId |-> "c2", pointsEarned |-> 7],
        [id |-> 2, userId |-> "u2", pointCategoryId |-> "c3", pointsEarned |-> 7] } }

InitLedger ==
    /\ \E owner \in Users :
          activities =
              setupTestData(owner, IF owner = "u1" THEN "c2" ELSE "c3", "B",
                            BareDefinition,
                            setupTestData("u1", "c1", "A",
                                [type |-> "fixed", focusScoringType |-> "multiplier",
                                 points |-> 10, focusLevels |-> DefaultFocusLevels],
                                {}, 1), 2)
    /\ loggedActivities = {}
    /\ insights = {}
    /\ loggedTasks \in TaskSeeds
    /\ nextActivityId = 3
    /\ nextLogId = 1
    /\ response = Reply("none", 0, "")
    /\ run = NoRun

AggregateOutcome(session) ==
    aggregateByCategory(session, activities, loggedActivities, loggedTasks)

AggregateByCategory(session) ==
    /\ session \in Sessions
    /\ Commit(AggregateOutcome(session))

\* <<session, request>>: either user logging either activity at two levels.
LedgerLogCalls ==
    Users \X [activityId : 1 .. MaxActivities, date : {"2024-01-15"},
              startTime : {NoTime}, endTime : {NoTime},
              focusLevel : {JsString("low"), JsString("zen")}]

\* <<session, body>>: the test user giving its first activity 15 base points.
LedgerUpdateCalls ==
    {"u1"} \X { Body(1, n, "fixed", "multiplier", JsInt(15), DefaultFocusLevels, "c1") :
                   n \in Names }

NextLedger ==
    \/ \E c \in LedgerLogCalls : LogActivity(c[1], c[2])
    \/ \E c \in LedgerUpdateCalls : UpdateActivity(c[1], c[2])
    \/ \E session \in Users, id \in 1 .. MaxActivities, cascade \in BOOLEAN :
          DeleteActivity(session, id, cascade)
    \/ \E session \in Sessions : AggregateByCategory(session)

SpecLedger == InitLedger /\ [][NextLedger]_vars

(***************************************************************************)
(* The step specification: one logging request and one delete request of   *)
(* the test user, both for its first activity, run one store access at a   *)
(* time in any interleaving; a store access may fail.                      *)
(***************************************************************************)
RaceUser == "u1"

RaceRequest ==
    [activityId |-> 1, date |-> "2024-01-15", startTime |-> NoTime,
     endTime |-> NoTime, focusLevel |-> JsString("good")]

\* The seeded rows: none, one of the first activity with its insight, one of
\* each activity with their insights.
SeededRows(k) ==
    LET row1 == CreateLoggedActivity({}, 1, "u1", 1, JsString("good"), JsInt(15))
        row2 == CreateLoggedActivity(row1, 2, "u1", 2, JsString("good"), JsInt(15))
    IN  IF k = 0 THEN {} ELSE IF k = 1 THEN row1 ELSE row2

SeededInsights(k) ==
    deriveInsight(deriveInsight({}, SeededRows(k), 1), SeededRows(k), 2)

InitSteps ==
    /\ activities = setupTestData("u1", "c2", "B", BareDefinition,
                         setupTestData("u1", "c1", "A", BareDefinition, {}, 1), 2)
    /\ \E k \in 0 .. 2 :
          /\ loggedActivities = SeededRows(k)
          /\ insights = SeededInsights(k)
    /\ loggedTasks = {}
    /\ nextActivityId = 3
    /\ nextLogId = MaxLogs + 1
    /\ response = Reply("none", 0, "")
    /\ \E cascade \in BOOLEAN : run = Run("find", "find", cascade)

\* The three tables as one value.
Store ==
    [activities |-> activities, loggedActivities |-> loggedActivities,
     insights |-> insights]

SetStore(st) ==
    /\ activities' = st.activities
    /\ loggedActivities' = st.loggedActivities
    /\ insights' = st.insights

\* A store with the writes of a transaction applied.
Applied(st, tx) ==
    [activities |-> st.activities \ tx.activities,
     loggedActivities |-> st.loggedActivities \ tx.loggedActivities,
     insights |-> st.insights \ tx.insights]

\* Statements run outside a transaction: each write is committed at once.
WithoutTransaction(st, tx) == Applied(st, tx)

\* prisma.$transaction: while it is open the committed store keeps its rows.
DuringTransaction(st, tx) == st

\* The foreign key of a row: its activity must exist when it is inserted.
ForeignKeyHolds(acts, activityId) == \E a \in acts : a.id = activityId

\* A handler that tries the insert again after a rejection.
RetryAfterRejectedInsert(attempts) == IF attempts < 2 THEN "insert" ELSE "done"

\* catch (error) { return 500 }: a rejected insert ends the request.
AfterRejectedInsert(attempts) == "done"

\* prisma.activity.findFirst of the logging route.
LogFind ==
    /\ run.log.pc = "find"
    /\ LET found == FindActivity(activities, RaceRequest.activityId, RaceUser)
       IN  run' = [run EXCEPT
                     !.log.found = found,
                     !.log.pc = IF found = {} THEN "done" ELSE "insert",
                     !.log.response =
                         IF found = {}
                         THEN Reply("log", 404, "Activity not found or access denied")
                         ELSE @]
    /\ UNCHANGED <<activities, loggedActivities, insights, loggedTasks,
                   nextActivityId, nextLogId, response>>

\* prisma.loggedActivity.create of the logging route, on the activity read
\* before; the store rejects the row when it fails or the activity is gone.
LogInsert(fault) ==
    /\ run.log.pc = "insert"
    /\ fault => run.faults < MaxFaults
    /\ LET out == logActivity(RaceUser, RaceRequest, run.log.found, loggedActivities,
                              nextLogId)
           rejected == \/ fault
                       \/ ~ForeignKeyHolds(activities, RaceRequest.activityId)
                       \/ out.response.status # 201
           next == AfterRejectedInsert(run.log.attempts + 1)
       IN  IF rejected
           THEN /\ run' = [run EXCEPT
                             !.log.attempts = @ + 1,
                             !.log.rejected = TRUE,
                             !.log.pc = next,
                             !.log.response =
                                 IF next = "done"
                                 THEN Reply("log", 500, "Internal server error")
                                 ELSE @,
                             !.faults = IF fault THEN @ + 1 ELSE @]
                /\ UNCHANGED <<loggedActivities, nextLogId>>
           ELSE /\ run' = [run EXCEPT !.log.attempts = @ + 1,
                                      !.log.pc = "done",
                                      !.log.response = out.response]
                /\ loggedActivities' = out.loggedActivities
                /\ nextLogId' = nextLogId + 1
    /\ UNCHANGED <<activities, insights, loggedTasks, nextActivityId, response>>

\* prisma.activity.findFirst of the delete route.
DeleteFind ==
    /\ run.del.pc = "find"
    /\ LET found == FindActivity(activities, RaceRequest.activityId, RaceUser)
       IN  run' = [run EXCEPT
                     !.del.before = Store,
                     !.del.pc = IF found = {} THEN "done"
                                ELSE IF run.del.cascade THEN "logs" ELSE "count",
                     !.del.response =
                         IF found = {}
                         THEN Reply("delete", 404, "Activity not found or access denied")
                         ELSE @]
    /\ UNCHANGED <<activities, loggedActivities, insights, loggedTasks,
                   nextActivityId, nextLogId, response>>

\* A statement of the transaction throws: the transaction is rolled back and
\* the catch answers 500.
TxThrow(fault) ==
    /\ run' = [run EXCEPT !.del.pc = "done",
                          !.del.response = Reply("delete", 500, "Internal server error"),
                          !.faults = IF fault THEN @ + 1 ELSE @]
    /\ UNCHANGED <<activities, loggedActivities, insights>>

\* A statement of the transaction has written: tx is what is written so far.
TxWrite(tx, pc) ==
    /\ run' = [run EXCEPT !.del.tx = tx, !.del.pc = pc]
    /\ SetStore(DuringTransaction(Store, tx))

\* tx.loggedActivity.deleteMany({ where: { activityId } })
TxDeleteLogs(fault) ==
    /\ run.del.pc = "logs"
    /\ fault => run.faults < MaxFaults
    /\ IF fault
       THEN TxThrow(fault)
       ELSE TxWrite([run.del.tx EXCEPT
                       !.loggedActivities =
                           LogsOf(loggedActivities, RaceRequest.activityId)],
                    "insights")
    /\ UNCHANGED <<loggedTasks, nextActivityId, nextLogId, response>>

\* tx.insight.deleteMany({ where: { activityId } })
TxDeleteInsights(fault) ==
    /\ run.del.pc = "insights"
    /\ fault => run.faults < MaxFaults
    /\ IF fault
       THEN TxThrow(fault)
       ELSE TxWrite([run.del.tx EXCEPT
                       !.insights = InsightsOf(insights, RaceRequest.activityId)],
                    "activity")
    /\ UNCHANGED <<loggedTasks, nextActivityId, nextLogId, response>>

\* tx.loggedActivity.count({ where: { activityId } }) and the throw on > 0
TxCount(fault) ==
    /\ run.del.pc = "count"
    /\ fault => run.faults < MaxFaults
    /\ IF fault \/ Cardinality(LogsOf(loggedActivities, RaceRequest.activityId)) > 0
       THEN TxThrow(fault)
       ELSE TxWrite(run.del.tx, "activity")
    /\ UNCHANGED <<loggedTasks, nextActivityId, nextLogId, response>>

\* tx.activity.delete({ where: { id } }) and the commit of the transaction.
TxDeleteActivity(fault, relation) ==
    /\ run.del.pc = "activity"
    /\ fault => run.faults < MaxFaults
    /\ LET seen == Applied(Store, run.del.tx)
           del == ActivityDelete(seen.activities, seen.loggedActivities,
                                 seen.insights, RaceRequest.activityId, relation)
       IN  IF fault \/ ~del.ok
           THEN TxThrow(fault)
           ELSE /\ run' = [run EXCEPT
                             !.del.pc = "done",
                             !.del.tx.activities = seen.activities \ del.activities,
                             !.del.response =
                                 Reply("delete", 200,
                                       IF run.del.cascade
                                       THEN "Activity and all its logged activities deleted successfully"
                                       ELSE "Activity deleted successfully")]
                /\ SetStore([activities |-> del.activities,
                             loggedActivities |-> seen.loggedActivities,
                             insights |-> del.insights])
    /\ UNCHANGED <<loggedTasks, nextActivityId, nextLogId, response>>

NextSteps ==
    \/ LogFind
    \/ \E fault \in BOOLEAN : LogInsert(fault)
    \/ DeleteFind
    \/ \E fault \in BOOLEAN : TxDeleteLogs(fault)
    \/ \E fault \in BOOLEAN : TxDeleteInsights(fault)
    \/ \E fault \in BOOLEAN : TxCount(fault)
    \/ \E fault \in BOOLEAN, relation \in InsightRelations :
          TxDeleteActivity(fault, relation)

SpecSteps == InitSteps /\ [][NextSteps]_vars

(***************************************************************************)
(* The concurrent-logging specification: two logging requests of the test  *)
(* user for its first activity, each at a focus level of its own, run one  *)
(* store access at a time in any interleaving, with aggregation requests   *)
(* between them.                                                           *)
(***************************************************************************)
Loggers == {1, 2}

\* The request of a logger: the first activity at one of three levels.
LoggerRequests ==
    [activityId : {1}, date : {"2024-01-15"}, startTime : {NoTime},
     endTime : {NoTime},
     focusLevel : {JsString("low"), JsString("good"), JsString("zen")}]

\* A logger before its first store access.
Logger(req) ==
    [pc |-> "find", request |-> req, found |-> {}, response |-> Reply("none", 0, "")]

InitLoggers ==
    /\ activities = setupTestData("u1", "c2", "B", BareDefinition,
                         setupTestData("u1", "c1", "A", BareDefinition, {}, 1), 2)
    /\ \E k \in 0 .. 2 : loggedActivities = SeededRows(k)
    /\ insights = {}
    /\ loggedTasks = {}
    /\ nextActivityId = 3
    /\ nextLogId = MaxLogs + 1
    /\ response = Reply("none", 0, "")
    /\ \E reqs \in [Loggers -> LoggerRequests] :
          run = [p \in Loggers |-> Logger(reqs[p])]

\* prisma.activity.findFirst of logger p.
LoggerFind(p) ==
    /\ run[p].pc = "find"
    /\ LET found == FindActivity(activities, run[p].request.activityId, RaceUser)
       IN  run' = [run EXCEPT
                     ![p].found = found,
                     ![p].pc = IF found = {} THEN "done" ELSE "insert",
                     ![p].response =
                         IF found = {}
                         THEN Reply("log", 404, "Activity not found or access denied")
                         ELSE @]
    /\ UNCHANGED <<activities, loggedActivities, insights, loggedTasks,
                   nextActivityId, nextLogId, response>>

\* prisma.loggedActivity.create of logger p, scored on the activity it read.
LoggerInsert(p) ==
    /\ run[p].pc = "insert"
    /\ LET out == logActivity(RaceUser, run[p].request, run[p].found,
                              loggedActivities, nextLogId)
       IN  IF \/ ~ForeignKeyHolds(activities, run[p].request.activityId)
              \/ out.response.status # 201
           THEN /\ run' = [run EXCEPT
                             ![p].pc = "done",
                             ![p].response = Reply("log", 500, "Internal server error")]
                /\ UNCHANGED <<loggedActivities, nextLogId>>
           ELSE /\ run' = [run EXCEPT ![p].pc = "done", ![p].response = out.response]
                /\ loggedActivities' = out.loggedActivities
                /\ nextLogId' = nextLogId + 1
    /\ UNCHANGED <<activities, insights, loggedTasks, nextActivityId, response>>

NextLoggers ==
    \/ \E p \in Loggers : LoggerFind(p)
    \/ \E p \in Loggers : LoggerInsert(p)
    \/ AggregateByCategory(RaceUser)

SpecLoggers == InitLoggers /\ [][NextLoggers]_vars

(***************************************************************************)
(* The concurrent-create specification: two create requests of the test    *)
(* user, each under a name and a category of its own choice, run one store *)
(* access at a time in any interleaving, on a store that is empty or holds *)
(* one activity.                                                           *)
(***************************************************************************)
Creators == {1, 2}

\* The body of a creator: a well-formed fixed activity under either name in
\* a category of the test user or of the other user.
CreatorBodies ==
    { Body(0, n, "fixed", "multiplier", JsInt(15), DefaultFocusLevels, c) :
        n \in Names, c \in CategoryIds }

\* A creator whose body has passed the checks, before its first store access.
Creator(body) == [pc |-> "category", body |-> body, response |-> Reply("none", 0, "")]

InitCreators ==
    /\ activities \in { {}, setupTestData("u1", "c1", "A", BareDefinition, {}, 1) }
    /\ loggedActivities = {}
    /\ insights = {}
    /\ loggedTasks = {}
    /\ nextActivityId = Cardinality(activities) + 1
    /\ nextLogId = 1
    /\ response = Reply("none", 0, "")
    /\ \E bodies \in [Creators -> CreatorBodies] :
          run = [p \in Creators |-> Creator(bodies[p])]

\* A creator moves on, or ends with a response.
CreatorGoes(p, pc, resp) ==
    /\ run' = [run EXCEPT ![p].pc = pc, ![p].response = resp]
    /\ UNCHANGED <<loggedActivities, insights, loggedTasks, nextLogId, response>>

\* prisma.pointCategory.findFirst({ where: { id, userId } })
CreatorFindsCategory(p) ==
    /\ run[p].pc = "category"
    /\ IF FindCategory(run[p].body.pointCategoryId, RaceUser) = {}
       THEN CreatorGoes(p, "done",
                        Reply("create", 404, "Category not found or access denied"))
       ELSE CreatorGoes(p, "existing", run[p].response)
    /\ UNCHANGED <<activities, nextActivityId>>

\* prisma.activity.findFirst({ where: { userId, pointCategoryId, name } })
CreatorFindsExisting(p) ==
    /\ run[p].pc = "existing"
    /\ IF FindByName(activities, RaceUser, run[p].body.pointCategoryId,
                     run[p].body.name, 0) # {}
       THEN CreatorGoes(p, "done",
                        Reply("create", 400,
                              "An activity with this name already exists in this category"))
       ELSE CreatorGoes(p, "create", run[p].response)
    /\ UNCHANGED <<activities, nextActivityId>>

\* prisma.activity.create({ data }): the store rejects a row that breaks
\* its unique key, and the catch answers 500.
CreatorInserts(p) ==
    /\ run[p].pc = "create"
    /\ LET rows == CreatedRows(RaceUser, run[p].body, activities, nextActivityId)
       IN  IF ~IsInteger(PointsColumn(run[p].body)) \/ ~UniqueUserIdName(rows)
           THEN /\ CreatorGoes(p, "done", Reply("create", 500, "Internal server error"))
                /\ UNCHANGED <<activities, nextActivityId>>
           ELSE /\ CreatorGoes(p, "done", Reply("create", 201, "created"))
                /\ activities' = rows
                /\ nextActivityId' = nextActivityId + 1

NextCreators ==
    \/ \E p \in Creators : CreatorFindsCategory(p)
    \/ \E p \in Creators : CreatorFindsExisting(p)
    \/ \E p \in Creators : CreatorInserts(p)

SpecCreators == InitCreators /\ [][NextCreators]_vars

(***************************************************************************)
(* The points specification: from an empty store, the test user creates    *)
(* and updates fixed activities whose points are any integer a JSON body   *)
(* can carry, logs them and aggregates.                                    *)
(***************************************************************************)
\* The points of the bodies: a positive and a negative integer.
PointsInputs == {JsInt(15), JsInt(0 - 5)}

\* <<session, body>>: well-formed bodies of fixed activities in the first
\* category, under either name and either points.
PointsCreateCalls ==
    {"u1"} \X { Body(0, n, "fixed", "multiplier", p, DefaultFocusLevels, "c1") :
                  n \in Names, p \in PointsInputs }

PointsUpdateCalls ==
    {"u1"} \X { Body(1, "A", "fixed", "multiplier", p, DefaultFocusLevels, "c1") :
                  p \in PointsInputs }

\* <<session, request>>: the test user logging either activity at two levels.
PointsLogCalls ==
    {"u1"} \X [activityId : 1 .. MaxActivities, date : {"2024-01-15"},
               startTime : {NoTime}, endTime : {NoTime},
               focusLevel : {JsString("good"), JsString("zen")}]

NextPoints ==
    \/ \E c \in PointsCreateCalls : CreateActivity(c[1], c[2])
    \/ \E c \in PointsUpdateCalls : UpdateActivity(c[1], c[2])
    \/ \E c \in PointsLogCalls : LogActivity(c[1], c[2])
    \/ \E session \in Users : AggregateByCategory(session)

SpecPoints == Init /\ [][NextPoints]_vars

(***************************************************************************)
(* Vocabulary of the properties.                                           *)
(***************************************************************************)
\* The logging requests for activity a that carry both required fields.
RequestsFor(a) == LogRequestsOf({a.id}, {"2024-01-15"})

IsCanonical(focusLevel) == focusLevel.t = "string" /\ focusLevel.s \in CanonicalLevels

\* The integer nearest to x2 / 2, a tie going to the larger one.
RoundHalfUp(x2) == CHOOSE k \in 0 .. (x2 + 1) : 2 * k - 1 <= x2 /\ x2 < 2 * k + 1

MinuteOfDay(t) == 60 * t[1] + t[2]

HasPositiveDuration(r) ==
    /\ r.startTime # NoTime
    /\ r.endTime # NoTime
    /\ MinuteOfDay(r.endTime) > MinuteOfDay(r.startTime)

\* An outcome that answers 201 with h halves of a point and adds one row
\* carrying them.
Recorded(out, h) ==
    /\ out.response.status = 201
    /\ out.response.pointsEarned = JsNumber(h)
    /\ \E l \in out.loggedActivities \ loggedActivities :
          /\ out.loggedActivities \ loggedActivities = {l}
          /\ 2 * l.pointsEarned = h

\* The row the last successful logging request created, and its activity.
LastRow == CHOOSE l \in loggedActivities : l.id = nextLogId - 1
ActivityOf(l) == CHOOSE a \in activities : a.id = l.activityId
Logged == response.op = "log" /\ response.status = 201

C2_TimeBasedMultiplier ==
    \A a \in activities :
        a.type = "time_based" /\ a.focusScoringType = "multiplier" =>
            \A r \in RequestsFor(a) :
                IsCanonical(r.focusLevel) /\ HasPositiveDuration(r) =>
                    Recorded(LogOutcome(a.userId, r),
                             2 * RoundHalfUp(
                                   (MinuteOfDay(r.endTime) - MinuteOfDay(r.startTime))
                                   * a.focusLevels[r.focusLevel.s]))

\* 09:00 to 10:30 at zen (2.0) has been logged as 180: no other request of
\* the model earns 180.
C2_Witness ==
    /\ Logged
    /\ response.pointsEarned = JsInt(180)
    /\ LastRow.pointsEarned = 180
    /\ LastRow.focusLevel = JsString("zen")
    /\ ActivityOf(LastRow).type = "time_based"
    /\ ActivityOf(LastRow).focusScoringType = "multiplier"

(***************************************************************************)
(* C3.  A time_based activity, under either scoring method and any focus   *)
(* level, records 0 points when the start or the end is missing or the end *)
(* is not after the start: an end before the start is not read as the next *)
(* day.                                                                    *)
(***************************************************************************)
C3_NoDurationNoPoints ==
    \A a \in activities :
        a.type = "time_based" =>
            \A r \in RequestsFor(a) :
                ~HasPositiveDuration(r) => Recorded(LogOutcome(a.userId, r), 0)

\* A multiplier activity logged at a canonical level earns 0 only without a
\* positive duration.
C3_Witness ==
    /\ Logged
    /\ response.pointsEarned = JsInt(0)
    /\ LastRow.pointsEarned = 0
    /\ IsCanonical(LastRow.focusLevel)
    /\ ActivityOf(LastRow).type = "time_based"
    /\ ActivityOf(LastRow).focusScoringType = "multiplier"

(***************************************************************************)
(* C4.  A fixed activity with fixed_points scoring, logged at a canonical  *)
(* level L, records focusTable[L] itself, whatever its basePoints.         *)
(***************************************************************************)
C4_FixedPoints ==
    \A a \in activities :
        a.type = "fixed" /\ a.focusScoringType = "fixed_points" =>
            \A r \in RequestsFor(a) :
                IsCanonical(r.focusLevel) =>
                    Recorded(LogOutcome(a.userId, r), a.focusLevels[r.focusLevel.s])

\* The table {8, 12, 18, 25} has been logged at good as 18.
C4_Witness ==
    /\ Logged
    /\ response.pointsEarned = JsInt(18)
    /\ LastRow.pointsEarned = 18
    /\ LastRow.focusLevel = JsString("good")
    /\ ActivityOf(LastRow).type = "fixed"
    /\ ActivityOf(LastRow).focusScoringType = "fixed_points"
    /\ ActivityOf(LastRow).points # 18

(***************************************************************************)
(* C5.  As claimed: a focus label that is not one of the four canonical    *)
(* strings never fails the request, and a fixed activity then earns its    *)
(* basePoints under either scoring method.                                 *)
(***************************************************************************)
IsFixed(a) == a.type \in {"fixed", ""}

C5_AsClaimed ==
    /\ response.op = "log" => response.status # 500
    /\ Logged /\ ~IsCanonical(LastRow.focusLevel) /\ IsFixed(ActivityOf(LastRow)) =>
          /\ LastRow.pointsEarned = ActivityOf(LastRow).points
          /\ response.pointsEarned = JsInt(ActivityOf(LastRow).points)

(***************************************************************************)
(* C6.  As claimed: the stored focusLevel is null exactly when the raw     *)
(* input is null or undefined, and the string form of the input for every  *)
(* other value, 0 and the empty string included.                           *)
(***************************************************************************)
C6_AsClaimed ==
    \A a \in activities :
        \A r \in RequestsFor(a) :
            LET out == LogOutcome(a.userId, r)
            IN  out.response.status = 201 =>
                    \A l \in out.loggedActivities \ loggedActivities :
                        l.focusLevel = IF r.focusLevel.t \in {"null", "undefined"}
                                       THEN JsNull
                                       ELSE JsString(String(r.focusLevel))

(***************************************************************************)
(* C7.  As claimed: once createActivity has succeeded with a kind, a       *)
(* scoring method, basePoints and a focus table, every logging request     *)
(* against the new activity is scored with exactly that definition.        *)
(***************************************************************************)
\* The definition a create or update body declares.
Declared(req) ==
    [points |-> PointsColumn(req).h \div 2, type |-> req.type,
     focusScoringType |-> req.focusScoringType, focusLevels |-> req.focusLevels]

C7_AsClaimed ==
    [][ \A c \in CreateCalls :
          ( /\ response'.op = "create"
            /\ response'.status = 201
            /\ activities' = CreateOutcome(c[1], c[2]).activities )
          => \A r \in LogRequests :
                r.activityId = nextActivityId /\ r.date # "" =>
                    logActivity(c[1], r, activities', loggedActivities',
                                nextLogId').response.pointsEarned
                      = PointsEarned(Declared(c[2]), r.startTime, r.endTime,
                                     r.focusLevel) ]_vars

(***************************************************************************)
(* C8.  A logging, delete or update request naming an activity of another  *)
(* user has the outcome of the same request in the store without that      *)
(* activity and its rows: the same response (NotFound once the body passes *)
(* its checks), and in both stores nothing created, changed or deleted.    *)
(***************************************************************************)
SameAndUntouched(with, without, acts0, logs0) ==
    /\ with.response = without.response
    /\ with.activities = activities
    /\ with.loggedActivities = loggedActivities
    /\ without.activities = acts0
    /\ without.loggedActivities = logs0

NotFound(out, op) ==
    out.response = Reply(op, 404, "Activity not found or access denied")

C8_NotOwnedIsNotFound ==
    \A a \in activities :
        \A u \in Users \ {a.userId} :
            LET acts0 == activities \ {a}
                logs0 == loggedActivities \ LogsOf(loggedActivities, a.id)
            IN  /\ \A r \in LogRequestsOf({a.id}, Dates) :
                      LET with == logActivity(u, r, activities, loggedActivities,
                                              nextLogId)
                          without == logActivity(u, r, acts0, logs0, nextLogId)
                      IN  /\ SameAndUntouched(with, without, acts0, logs0)
                          /\ r.date # "" => NotFound(with, "log")
                /\ \A cascade \in BOOLEAN, relation \in InsightRelations :
                      LET with == deleteActivity(u, a.id, cascade, activities,
                                                 loggedActivities, insights, relation)
                          without == deleteActivity(u, a.id, cascade, acts0, logs0,
                                                    insights, relation)
                      IN  /\ SameAndUntouched(with, without, acts0, logs0)
                          /\ with.insights = insights
                          /\ without.insights = insights
                          /\ NotFound(with, "delete")
                /\ \A b \in GoodBodies({a.id}) \cup BadBodies(a.id) :
                      LET with == updateActivity(u, b, activities, loggedActivities)
                          without == updateActivity(u, b, acts0, logs0)
                      IN  /\ SameAndUntouched(with, without, acts0, logs0)
                          /\ b \in GoodBodies({a.id}) => NotFound(with, "update")

\* A logging request was answered NotFound while every id it can name exists:
\* the activity it named belongs to another user.
C8_Witness ==
    /\ response = Reply("log", 404, "Activity not found or access denied")
    /\ \A id \in 1 .. MaxActivities : \E a \in activities : a.id = id
    /\ \E a, b \in activities : a.userId # b.userId

(***************************************************************************)
(* C9.  A logging request of a signed-in user in which activityId or date  *)
(* is absent is answered InvalidRequest, whatever its other fields and     *)
(* whatever the store holds, and the store is left as it was.              *)
(***************************************************************************)
C9_MissingFieldIsInvalid ==
    \A u \in Users :
        \A r \in LogRequestsOf({0}, Dates) \cup LogRequestsOf(ActivityIds, {""}) :
            LET out == logActivity(u, r, activities, loggedActivities, nextLogId)
            IN  /\ out.response = Reply("log", 400, "Activity ID and date are required")
                /\ out.activities = activities
                /\ out.loggedActivities = loggedActivities

\* InvalidRequest was answered in a store that holds activities and rows.
C9_Witness ==
    /\ response = Reply("log", 400, "Activity ID and date are required")
    /\ activities # {}
    /\ loggedActivities # {}

(***************************************************************************)
(* C10.  A successful logging request adds exactly one row, owned by the   *)
(* caller, naming the requested activity and carrying the points of the    *)
(* response; every activity and every earlier row stays as it was.         *)
(***************************************************************************)
C10_OneRowAdded ==
    \A r \in FewLogRequests :
        \A u \in Sessions :
            LET out == logActivity(u, r, activities, loggedActivities, nextLogId)
            IN  out.response.status = 201 =>
                    /\ out.activities = activities
                    /\ \E l \in out.loggedActivities :
                          /\ l \notin loggedActivities
                          /\ out.loggedActivities = loggedActivities \cup {l}
                          /\ l.userId = u
                          /\ l.activityId = r.activityId
                          /\ JsInt(l.pointsEarned) = out.response.pointsEarned
                          /\ JsInt(l.pointsEarned)
                               = PointsEarned(
                                   CHOOSE a \in activities :
                                       a.id = r.activityId /\ a.userId = u,
                                   r.startTime, r.endTime, r.focusLevel)

\* A second row of the same user and activity was added; the store also
\* holds an activity of another user.
C10_Witness ==
    /\ Logged
    /\ \E l \in loggedActivities :
          /\ l # LastRow
          /\ l.userId = LastRow.userId
          /\ l.activityId = LastRow.activityId
    /\ \E a \in activities : a.userId # LastRow.userId

(***************************************************************************)
(* C13.  As claimed: a delete without the cascade of an owned activity     *)
(* that has rows is answered Conflict, and nothing is removed.             *)
(***************************************************************************)
\* The messages of the 400 answers to a body that fails validation.
ValidationMessages ==
    { "Activity ID and date are required",
      "Activity ID is required",
      "Name and category are required",
      "Activity ID, name and category are required",
      "Points are required for fixed activities",
      "Focus levels are required for all activities",
      "Valid focus scoring type is required" }

InvalidRequest(resp) == resp.status = 400 /\ resp.body \in ValidationMessages

\* The client-side answer the routes give to a conflict (a duplicate name
\* is answered 400 with its own message), as opposed to the generic 500.
Conflict(resp) == resp.status \in {400, 409} /\ resp.body \notin ValidationMessages

C13_AsClaimed ==
    \A a \in activities :
        \A relation \in InsightRelations :
            LET out == DeleteOutcome(a.userId, a.id, FALSE, relation)
            IN  LogsOf(loggedActivities, a.id) # {} =>
                    /\ Conflict(out.response)
                    /\ out.activities = activities
                    /\ out.loggedActivities = loggedActivities

RECURSIVE SumPointsEarned(_)
SumPointsEarned(rows) ==
    IF rows = {}
    THEN 0
    ELSE LET r == CHOOSE x \in rows : TRUE
         IN  r.pointsEarned + SumPointsEarned(rows \ {r})

\* The rows of user u, in a store, whose activity lies in category c.
RowsIn(acts, logs, u, c) ==
    { l \in logs : /\ l.userId = u
                   /\ \E a \in acts : a.id = l.activityId /\ a.pointCategoryId = c }

\* The logged tasks of user u in category c.
TasksIn(tasks, u, c) == { t \in tasks : t.userId = u /\ t.pointCategoryId = c }

OwnerOf(c) == (CHOOSE x \in PointCategories : x.id = c).userId

C12_Frozen ==
    [][ /\ \A m \in loggedActivities' :
              IF \E l \in loggedActivities : l.id = m.id
              THEN m \in loggedActivities
              ELSE JsInt(m.pointsEarned) = response'.pointsEarned
        /\ response'.op = "aggregate" /\ response'.status = 200 =>
              \A c \in CategoryIds :
                  response'.totals[c] >= 0 =>
                      response'.totals[c]
                        = SumPointsEarned(RowsIn(activities', loggedActivities',
                                                 OwnerOf(c), c))
                          + SumPointsEarned(TasksIn(loggedTasks', OwnerOf(c), c))
      ]_vars

\* An aggregation over a row logged at zen for 20 points under 10 base
\* points and a row logged at zen for 30 after the update to 15.
C12_Witness ==
    /\ response.op = "aggregate"
    /\ response.status = 200
    /\ \E l, m \in loggedActivities :
          /\ l.activityId = 1 /\ m.activityId = 1
          /\ l.focusLevel = JsString("zen") /\ m.focusLevel = JsString("zen")
          /\ l.pointsEarned = 20 /\ m.pointsEarned = 30
    /\ \E a \in activities : a.id = 1 /\ a.points = 15
    /\ response.totals["c1"] >= 50

(***************************************************************************)
(* C20.  As claimed: for every user and every category of the user, the    *)
(* total of the aggregation is the sum of pointsEarned over exactly the    *)
(* user's logged-activity rows whose activity lies in the category.        *)
(***************************************************************************)
C20_AsClaimed ==
    \A u \in Users :
        \A c \in {x.id : x \in {y \in PointCategories : y.userId = u}} :
            AggregateOutcome(u).response.totals[c]
              = SumPointsEarned(RowsIn(activities, loggedActivities, u, c))

(***************************************************************************)
(* C20, amended.  The total of a category is the sum over the user's       *)
(* logged-activity rows of the category plus the sum over the user's       *)
(* logged tasks of the category, 0 when it has neither; the response is a  *)
(* success, lists exactly the user's categories, and its grand total is    *)
(* the sum of the per-category totals.                                     *)
(***************************************************************************)
C20_WithTasks ==
    \A u \in Users :
        LET out == AggregateOutcome(u).response
            own == {x.id : x \in {y \in PointCategories : y.userId = u}}
        IN  /\ out.status = 200
            /\ \A c \in CategoryIds :
                  out.totals[c]
                    = IF c \in own
                      THEN SumPointsEarned(RowsIn(activities, loggedActivities, u, c))
                           + SumPointsEarned(TasksIn(loggedTasks, u, c))
                      ELSE 0 - 1
            /\ out.totalPoints
                 = SumPointsEarned(
                     { l \in loggedActivities :
                         l.userId = u /\ \E a \in activities : a.id = l.activityId })
                   + SumPointsEarned({ t \in loggedTasks : t.userId = u })

\* An aggregation of the test user: one category with rows and no tasks,
\* the other with a task and no rows.
C20_Witness ==
    /\ response.op = "aggregate"
    /\ response.status = 200
    /\ response.totals["c1"] = SumPointsEarned(loggedActivities)
    /\ response.totals["c1"] > 0
    /\ response.totals["c2"] = 7
    /\ response.totalPoints = response.totals["c1"] + 7

(***************************************************************************)
(* C17.  In every state reached by create, update and delete requests, no  *)
(* two distinct activities of one user in one category have the same name. *)
(***************************************************************************)
C17_NameUniqueInCategory ==
    \A a, b \in activities :
        ( /\ a.userId = b.userId
          /\ a.pointCategoryId = b.pointCategoryId
          /\ a.name = b.name ) => a = b

\* A create or update was refused for its name while the user holds two
\* activities in the category.
C17_Witness ==
    /\ response.op \in {"create", "update"}
    /\ response.body = "An activity with this name already exists in this category"
    /\ \E a, b \in activities :
          a # b /\ a.userId = b.userId /\ a.pointCategoryId = b.pointCategoryId

(***************************************************************************)
(* C18.  As claimed: a create under a name the user already has in the     *)
(* category is answered Conflict and writes no row; the same name in       *)
(* another category of the user succeeds.                                  *)
(***************************************************************************)
C18_AsClaimed ==
    \A a \in activities :
        \A b \in {x \in GoodBodies({0}) : x.name = a.name} :
            LET out == CreateOutcome(a.userId, b)
            IN  /\ b.pointCategoryId = a.pointCategoryId =>
                      /\ Conflict(out.response)
                      /\ out.activities = activities
                /\ ( /\ b.pointCategoryId # a.pointCategoryId
                     /\ FindCategory(b.pointCategoryId, a.userId) # {}
                     /\ FindByName(activities, a.userId, b.pointCategoryId, b.name, 0) = {} )
                   => /\ out.response.status = 201
                      /\ Cardinality(out.activities) = Cardinality(activities) + 1

(***************************************************************************)
(* C19.  A create or update body of a signed-in user without focusLevels,  *)
(* or without one of the two scoring methods, is answered InvalidRequest;  *)
(* the answer is the one an empty activity table gives, and no activity is *)
(* created or modified.                                                    *)
(***************************************************************************)
\* Bodies in which focusLevels is missing or the scoring method is not valid.
UnscoredBodies ==
    { b \in [id : {0, 1}, name : {"", "A"}, type : {"fixed", "time_based"},
             focusScoringType : {"", "bonus", "multiplier"},
             points : {JsUndefined, JsInt(15)},
             focusLevels : {NoTable, DefaultFocusLevels},
             pointCategoryId : {"", "c1", "c3"}] :
        b.focusLevels = NoTable \/ b.focusScoringType # "multiplier" }

C19_UnscoredBodyIsInvalid ==
    \A b \in UnscoredBodies :
        \A u \in Users :
            LET created == createActivity(u, b, activities, loggedActivities,
                                          nextActivityId)
                updated == updateActivity(u, b, activities, loggedActivities)
            IN  /\ InvalidRequest(created.response)
                /\ created.response
                     = createActivity(u, b, {}, {}, nextActivityId).response
                /\ created.activities = activities
                /\ InvalidRequest(updated.response)
                /\ updated.response = updateActivity(u, b, {}, {}).response
                /\ updated.activities = activities

\* A body without focusLevels was refused while activities exist.
C19_Witness ==
    /\ response.op \in {"create", "update"}
    /\ response.status = 400
    /\ response.body = "Focus levels are required for all activities"
    /\ activities # {}

(***************************************************************************)
(* C11.  When the store rejects the insert of a logging request, the       *)
(* request ends with the generic 'Internal server error', no row of the    *)
(* request exists, and the insert was attempted once; no request attempts  *)
(* the insert more than once.                                              *)
(***************************************************************************)
C11_RejectedInsert ==
    /\ run.log.attempts <= 1
    /\ run.log.rejected =>
          /\ run.log.pc = "done"
          /\ run.log.response = Reply("log", 500, "Internal server error")
          /\ run.log.attempts = 1
          /\ nextLogId = MaxLogs + 1
          /\ \A l \in loggedActivities : l.id <= MaxLogs

\* The store failed on the insert while the activity was still there.
C11_Witness ==
    /\ run.log.rejected
    /\ run.log.pc = "done"
    /\ run.faults = 1
    /\ \E a \in activities : a.id = RaceRequest.activityId

C16_AsClaimed ==
    ( /\ run.log.pc = "done"
      /\ run.del.pc = "done"
      /\ run.del.cascade
      /\ run.faults = 0 )
    => /\ run.log.response.status \in {404, 201}
       /\ run.del.response.status = 200 =>
             LogsOf(loggedActivities, RaceRequest.activityId) = {}

(***************************************************************************)
(* C21.  In the aggregation of every user, a benchmark is marked achieved  *)
(* exactly when it belongs to one of the user's categories and the total   *)
(* reported for that category is at least its pointsRequired: a total      *)
(* equal to the threshold counts.                                          *)
(***************************************************************************)
C21_AchievedAtThreshold ==
    \A u \in Users :
        LET out == AggregateOutcome(u).response
        IN  \A b \in Benchmarks :
                b.id \in out.achieved
                  <=> /\ OwnerOf(b.pointCategoryId) = u
                      /\ out.totals[b.pointCategoryId] >= b.pointsRequired

\* An aggregation in which the first category stands exactly at the higher
\* threshold (20, achieved) and the second below its threshold (not achieved).
C21_Witness ==
    /\ response.op = "aggregate"
    /\ response.status = 200
    /\ response.totals["c1"] = 20
    /\ {"b1", "b2"} \subseteq response.achieved
    /\ response.totals["c2"] \in 0 .. 6
    /\ "b3" \notin response.achieved

(***************************************************************************)
(* C25.  As claimed: a time_based activity with fixed_points scoring,      *)
(* logged with a positive duration, records the table value of a canonical *)
(* label and the neutral default 1 for every other label, missing ones     *)
(* included, whatever the duration.                                        *)
(***************************************************************************)
C25_AsClaimed ==
    \A a \in activities :
        a.type = "time_based" /\ a.focusScoringType = "fixed_points" =>
            \A r \in RequestsFor(a) :
                HasPositiveDuration(r) =>
                    Recorded(LogOutcome(a.userId, r),
                             IF IsCanonical(r.focusLevel)
                             THEN a.focusLevels[r.focusLevel.s]
                             ELSE 2)

C23_AsClaimed ==
    /\ \A l \in loggedActivities : l.pointsEarned >= 0
    /\ \A a \in activities : a.points >= 0

(***************************************************************************)
(* C27.  As claimed: no create, update or logging request of any user      *)
(* lowers a total of an aggregation: for every user, each category total   *)
(* and the grand total after the request are at least what they were       *)
(* before it, and every benchmark achieved before it is achieved after it. *)
(***************************************************************************)
\* The aggregation of user u after an outcome is at least the one before it.
NotLowered(u, out) ==
    LET before == AggregateOutcome(u).response
        after == aggregateByCategory(u, out.activities, out.loggedActivities,
                                     loggedTasks).response
    IN  /\ \A c \in CategoryIds : after.totals[c] >= before.totals[c]
        /\ after.totalPoints >= before.totalPoints
        /\ before.achieved \subseteq after.achieved

C27_AsClaimed ==
    \A u \in Users :
        /\ \A c \in PointsCreateCalls : NotLowered(u, CreateOutcome(c[1], c[2]))
        /\ \A c \in PointsUpdateCalls : NotLowered(u, UpdateOutcome(c[1], c[2]))
        /\ \A c \in PointsLogCalls : NotLowered(u, LogOutcome(c[1], c[2]))

(***************************************************************************)
(* C30.  As claimed: the grand total of a user's aggregation is the sum of *)
(* pointsEarned over all logged-activity rows the user owns.               *)
(***************************************************************************)
C30_AsClaimed ==
    \A u \in Users :
        AggregateOutcome(u).response.totalPoints
          = SumPointsEarned({l \in loggedActivities : l.userId = u})

(***************************************************************************)
(* C30, amended.  The grand total of a user's aggregation is the sum of    *)
(* pointsEarned over all logged-activity rows the user owns plus the sum   *)
(* over all logged tasks the user owns: no row is dropped or counted       *)
(* twice, because the activity of every row lies in exactly one category,  *)
(* owned by the owner of the row; a create puts the new activity in a      *)
(* category of the caller and no update moves an activity to another       *)
(* category.                                                               *)
(***************************************************************************)
C30_NothingDropped ==
    /\ \A u \in Users :
          /\ AggregateOutcome(u).response.totalPoints
               = SumPointsEarned({l \in loggedActivities : l.userId = u})
                 + SumPointsEarned({t \in loggedTasks : t.userId = u})
          /\ \A l \in {x \in loggedActivities : x.userId = u} :
                Cardinality({c \in CategoryIds :
                               l \in RowsIn(activities, loggedActivities, u, c)}) = 1
    /\ \A l \in loggedActivities :
          \E a \in activities :
              a.id = l.activityId /\ OwnerOf(a.pointCategoryId) = l.userId
    /\ \A u \in Users :
          /\ \A b \in GoodBodies(1 .. MaxActivities) :
                \A a \in activities :
                    \E x \in UpdateOutcome(u, b).activities :
                        x.id = a.id /\ x.pointCategoryId = a.pointCategoryId
          /\ \A b \in GoodBodies({0}) :
                \A x \in CreateOutcome(u, b).activities \ activities :
                    x.userId = u /\ OwnerOf(x.pointCategoryId) = u

\* An aggregation of the test user over rows in both of its categories and
\* a logged task.
C30_Witness ==
    /\ response.op = "aggregate"
    /\ response.status = 200
    /\ \E l, m \in loggedActivities :
          /\ l.userId = "u1" /\ m.userId = "u1"
          /\ l.activityId = 1 /\ m.activityId = 2
    /\ \E t \in loggedTasks : t.userId = "u1"
    /\ response.totalPoints
         = SumPointsEarned(loggedActivities)
           + SumPointsEarned({t \in loggedTasks : t.userId = "u1"})
    /\ response.totalPoints > response.totals["c1"]
    /\ response.totalPoints > response.totals["c2"]

(***************************************************************************)
(* C28.  The aggregation of a user is isolated from every other user: no   *)
(* create, logging, update or delete request of another user changes any   *)
(* part of its response, and the response is the one of the store reduced  *)
(* to the user's own records, whatever rows and tasks the other user holds *)
(* there, rows naming the user's own activities included.                  *)
(***************************************************************************)
\* The response user u gets from a store.
AggregateOf(u, acts, logs, tasks) == aggregateByCategory(u, acts, logs, tasks).response

\* Rows and tasks another user v might hold: a row for each activity of the
\* store, a task in each category.
RowsOfOther(v) ==
    { [id |-> 90 + a.id, userId |-> v, activityId |-> a.id,
       focusLevel |-> JsString("zen"), pointsEarned |-> 40] : a \in activities }

TasksOfOther(v) ==
    { [id |-> 90, userId |-> v, pointCategoryId |-> c, pointsEarned |-> 3] :
        c \in CategoryIds }

C28_Isolated ==
    \A u \in Users :
        \A v \in Users \ {u} :
            LET mine == AggregateOutcome(u).response
                After(out) == AggregateOf(u, out.activities, out.loggedActivities,
                                          loggedTasks)
            IN  /\ \A r \in FewLogRequests :
                      After(LogOutcome(v, r)) = mine
                /\ \A b \in GoodBodies({0}) :
                      After(CreateOutcome(v, b)) = mine
                /\ \A b \in GoodBodies(1 .. MaxActivities) :
                      After(UpdateOutcome(v, b)) = mine
                /\ \A id \in 1 .. MaxActivities, cascade \in BOOLEAN,
                      relation \in InsightRelations :
                      After(DeleteOutcome(v, id, cascade, relation)) = mine
                /\ mine = AggregateOf(u, {a \in activities : a.userId = u},
                                      {l \in loggedActivities : l.userId = u},
                                      {t \in loggedTasks : t.userId = u})
                /\ \A rows \in SUBSET RowsOfOther(v) :
                      mine = AggregateOf(u, activities, loggedActivities \cup rows,
                                         loggedTasks \cup TasksOfOther(v))
                /\ \A tasks \in SUBSET TasksOfOther(v) :
                      mine = AggregateOf(u, activities, loggedActivities,
                                         loggedTasks \cup tasks)

\* The test user is shown its own 20 points while the other user holds an
\* activity, a row and a task.
C28_Witness ==
    /\ response.op = "aggregate"
    /\ response.status = 200
    /\ response.totals["c1"] >= 20
    /\ response.totals["c3"] = 0 - 1
    /\ \E a \in activities : a.userId = "u2"
    /\ \E l \in loggedActivities : l.userId = "u2"
    /\ \E t \in loggedTasks : t.userId = "u2"
    /\ response.totalPoints
         = SumPointsEarned({l \in loggedActivities : l.userId = "u1"})
           + SumPointsEarned({t \in loggedTasks : t.userId = "u1"})

(***************************************************************************)
(* C24.  Every logged row belongs to the user who is the owner of the      *)
(* activity it names.  The rows a logging request adds carry the session's *)
(* user and name an activity of that user; a userId in the request body    *)
(* changes nothing; and a request without a session is answered 401 and    *)
(* creates nothing.                                                        *)
(***************************************************************************)
\* A request body that also carries a userId field.
WithUserId(r, userId) == [userId |-> userId] @@ r

C24_RowsOfTheCaller ==
    /\ \A l \in loggedActivities :
          \E a \in activities : a.id = l.activityId /\ a.userId = l.userId
    /\ \A r \in FewLogRequests :
          /\ \A session \in Sessions, claimed \in Users :
                LET out == LogOutcome(session, WithUserId(r, claimed))
                IN  /\ out = LogOutcome(session, r)
                    /\ \A l \in out.loggedActivities \ loggedActivities :
                          /\ l.userId = session
                          /\ \E a \in activities :
                                a.id = l.activityId /\ a.userId = session
          /\ LogOutcome(NoSession, r)
               = Outcome(Reply("log", 401, "Unauthorized"), activities, loggedActivities)

\* The second user has logged its own activity in a store that holds an
\* activity and a row of the first user.
C24_Witness ==
    /\ Logged
    /\ LastRow.userId = "u2"
    /\ ActivityOf(LastRow).userId = "u2"
    /\ \E a \in activities : a.userId = "u1"
    /\ \E l \in loggedActivities : l.userId = "u1"

(***************************************************************************)
(* C22.  Concurrent logging requests of one user for one activity are      *)
(* never merged or lost: under every interleaving, the rows added so far   *)
(* are one for each request that has succeeded, each with the points and   *)
(* the focus level of its own request; the earlier rows are untouched; and *)
(* an aggregation counts all of them.                                      *)
(***************************************************************************)
\* The rows the store held before the requests, and the rows added since.
EarlierRows == {l \in loggedActivities : l.id <= MaxLogs}
AddedRows == {l \in loggedActivities : l.id > MaxLogs}

\* The loggers whose request has succeeded.
Succeeded == {p \in Loggers : run[p].pc = "done" /\ run[p].response.status = 201}

RECURSIVE SumOfResponses(_)
SumOfResponses(ps) ==
    IF ps = {}
    THEN 0
    ELSE LET p == CHOOSE x \in ps : TRUE
         IN  run[p].response.pointsEarned.h \div 2 + SumOfResponses(ps \ {p})

C22_NoneMergedOrLost ==
    /\ \E k \in 0 .. 2 : EarlierRows = SeededRows(k)
    /\ Cardinality(AddedRows) = Cardinality(Succeeded)
    /\ \A p \in Loggers : run[p].pc = "done" => p \in Succeeded
    /\ \E row \in [Succeeded -> AddedRows] :
          /\ \A p, q \in Succeeded : row[p] = row[q] => p = q
          /\ \A p \in Succeeded :
                /\ row[p].userId = RaceUser
                /\ row[p].activityId = run[p].request.activityId
                /\ row[p].focusLevel = run[p].request.focusLevel
                /\ JsInt(row[p].pointsEarned) = run[p].response.pointsEarned
                /\ JsInt(row[p].pointsEarned)
                     = PointsEarned(CHOOSE a \in activities : a.id = row[p].activityId,
                                    NoTime, NoTime, run[p].request.focusLevel)
    /\ AggregateOutcome(RaceUser).response.totals["c1"]
         = SumPointsEarned(LogsOf(EarlierRows, 1)) + SumOfResponses(Succeeded)

\* Both requests read the activity before either inserted, both succeeded
\* at the same level, and an aggregation has counted the two rows.
C22_Witness ==
    /\ Succeeded = Loggers
    /\ run[1].request = run[2].request
    /\ Cardinality(AddedRows) = 2
    /\ response.op = "aggregate"
    /\ response.totals["c1"]
         = SumPointsEarned(LogsOf(EarlierRows, 1))
           + 2 * (run[1].response.pointsEarned.h \div 2)
    /\ run[1].response.pointsEarned.h > 0

(***************************************************************************)
(* C29.  Two concurrent create requests of one user under the same name in *)
(* the same category never both succeed, under any interleaving of their   *)
(* existence checks and inserts: in every state at most one activity of    *)
(* the user has that name in that category.                                *)
(***************************************************************************)
C29_AtMostOneCreated ==
    /\ \A p, q \in Creators :
          ( /\ p # q
            /\ run[p].body.name = run[q].body.name
            /\ run[p].body.pointCategoryId = run[q].body.pointCategoryId )
          => ~(run[p].response.status = 201 /\ run[q].response.status = 201)
    /\ \A p \in Creators :
          Cardinality(FindByName(activities, RaceUser, run[p].body.pointCategoryId,
                                 run[p].body.name, 0)) <= 1
    /\ \A p \in Creators :
          run[p].response.status = 201 =>
              FindByName(activities, RaceUser, run[p].body.pointCategoryId,
                         run[p].body.name, 0) # {}

\* Both requests passed the existence check before either inserted: one was
\* created and the other was rejected by the store.
C29_Witness ==
    /\ run[1].body = run[2].body
    /\ \E p, q \in Creators :
          /\ run[p].response.status = 201
          /\ run[q].response = Reply("create", 500, "Internal server error")
    /\ Cardinality(activities) = 1

====
